---- MODULE Spec2Model ----
(***************************************************************************)
(* SonicAlchemy: the energy-based tempo estimator detectBPM.               *)
(*                                                                         *)
(* A call of detectBPM is modelled as the JavaScript event loop runs it:   *)
(* the synchronous part up to `await offlineCtx.startRendering()` is one   *)
(* step (Invoke), and the continuation after the await -- window           *)
(* selection, energy envelope, onset detection, interval collection,       *)
(* histogram and octave correction -- is one run-to-completion step        *)
(* (RenderResolve).  A rejected rendering is RenderReject.                 *)
(*                                                                         *)
(* Representation.  A sample buffer is a record                            *)
(*   [length, samples]  with  samples : (set of positions) -> Int \ {0};   *)
(* a position outside DOMAIN samples holds the sample 0.  Every sum of the *)
(* code is the same sum with its zero terms left out.  Sample values are   *)
(* integers (a fixed-point grid of the float range).  Times are kept as    *)
(* sample counts t, standing for t / sampleRate seconds, and every         *)
(* comparison of the code between times is the same comparison multiplied  *)
(* out, in exact arithmetic.  Histogram weights are kept in quarters.      *)
(***************************************************************************)
EXTENDS Integers, Sequences, FiniteSets, TLC

VARIABLES
  audioBuffer,   \* call -> the argument of detectBPM
  pc,            \* call -> "start" | "rendering" | "done", or "looping" for
                 \* a call inside a loop that never ends
  threw,         \* call -> "none" or the name of the exception caught
  settled,       \* call -> "pending" | "fulfilled" | "rejected" (the promise)
  data,          \* call -> the analysed samples (after window selection)
  maxOffset,     \* call -> offset retained by the window scan
  volumeLevels,  \* call -> energy envelope
  peaks,         \* call -> onset times
  intervals,     \* call -> accepted intervals, in push order
  histogram,     \* call -> bpm -> weight (in quarters)
  bestBpm,       \* call -> candidates[0], 0 when never computed
  result,        \* call -> value the promise resolves with
  \* AddTrackModal (the import dialog)
  drafts,          \* the committed `drafts` state: draft ids in list order
  renderedDrafts,  \* `drafts` as the handlers of the last render see it
  globalError,     \* "none" (null) | "limit" | "incomplete"
  nextDraftId,     \* the ids given out so far are 1 .. nextDraftId - 1
  \* services/db.ts (the object store 'tracks') and the restore in progress
  store,           \* the tracks in the object store, at most one per id
  exported,        \* <<>> or <<s>>, s the last string exportData returned
  jsonString,      \* the argument of the importData call in progress
  importPhase,     \* "idle" | "clearing" | "adding" | "fulfilled" | "rejected"
  \* the range-forcing loops of detectBPM taken alone
  rawBpm,          \* a raw candidate: a value of bestBpm before the loops
  corrected,       \* raw candidate -> Math.round(bestBpm) after the loops,
                   \* for the candidates the loops were run on
  \* services/imageUtils.ts, the peak-based detectBPM
  trackBuffer,     \* its argument: NullBuffer, or the sample rate and the
                   \* loudest |sample| of each part of the analysed slice
  partPeaks,       \* positions of the retained parts, in half samples
  groups,          \* interval groups, in order of creation
  topCandidates,   \* folded tempo candidates, sorted by count
  tempo,           \* <<>> or <<v>>, v the value the promise resolved with
  tempoThrew,      \* TRUE when the catch block ran
  \* App: the library and the mixing queue
  trackList,       \* the `tracks` state: track ids in list order
  mixingQueue,     \* the `mixingQueue` state: track ids in queue order
  deleteCall       \* id -> "none" | "awaiting" | "fulfilled" | "rejected":
                   \* the last handleDeleteTrack(id) the user confirmed

bpmVars == <<audioBuffer, pc, threw, settled, data, maxOffset, volumeLevels,
             peaks, intervals, histogram, bestBpm, result>>

dialogVars == <<drafts, renderedDrafts, globalError, nextDraftId>>

dbVars == <<store, exported, jsonString, importPhase>>

octaveVars == <<rawBpm, corrected>>

peakVars == <<trackBuffer, partPeaks, groups, topCandidates, tempo, tempoThrew>>

appVars == <<trackList, mixingQueue, deleteCall>>

vars == <<bpmVars, dialogVars, dbVars, octaveVars, peakVars, appVars>>

Calls == DOMAIN pc

-----------------------------------------------------------------------------
(* Arithmetic helpers *)

Abs(x) == IF x < 0 THEN -x ELSE x
Min(a, b) == IF a < b THEN a ELSE b
Max(a, b) == IF a > b THEN a ELSE b

\* Math.round of the non-negative quotient num / den: floor(num/den + 1/2).
RoundDiv(num, den) == (2 * num + den) \div (2 * den)

SetMin(S) == CHOOSE x \in S : \A y \in S : x <= y
SetMax(S) == CHOOSE x \in S : \A y \in S : x >= y

\* The middle of the span of a finite set of integers.
MidOf(S) == (SetMin(S) + SetMax(S)) \div 2

RECURSIVE SumFn(_, _)
\* Sum of f[x] for x in S, the lower half of S before the upper half.
SumFn(f, S) ==
  IF S = {} THEN 0
  ELSE IF Cardinality(S) = 1 THEN f[SetMin(S)]
  ELSE LET mid == MidOf(S)
       IN SumFn(f, {x \in S : x <= mid}) + SumFn(f, {x \in S : x > mid})

RECURSIVE SqrtSearch(_, _, _)
\* Largest r in lo..hi with r * r <= n (hi * hi does not overflow).
SqrtSearch(n, lo, hi) ==
  IF lo >= hi THEN lo
  ELSE LET mid == (lo + hi + 1) \div 2
       IN IF mid * mid <= n THEN SqrtSearch(n, mid, hi)
                            ELSE SqrtSearch(n, lo, mid - 1)

ISqrt(n) == SqrtSearch(n, 0, 46340)

-----------------------------------------------------------------------------
(* Sample buffers *)

Buffer(sr, len, spikes) ==
  [null |-> FALSE, sampleRate |-> sr, length |-> len, samples |-> spikes]

\* detectBPM(null): the argument is not an AudioBuffer.
NullBuffer == [null |-> TRUE, sampleRate |-> 0, length |-> 0, samples |-> <<>>]

NoData == [length |-> 0, samples |-> <<>>]
NoLevels == [length |-> 0, values |-> <<>>]

\* data[i]
Sample(d, i) == IF i \in DOMAIN d.samples THEN d.samples[i] ELSE 0

\* data.slice(from, to): a new array, positions renumbered from 0.
Slice(d, from, to) ==
  LET hi   == Min(to, d.length)
      keep == {p \in DOMAIN d.samples : p >= from /\ p < hi}
  IN [length  |-> Max(hi - from, 0),
      samples |-> [q \in {p - from : p \in keep} |-> d.samples[q + from]]]

-----------------------------------------------------------------------------
(* 1. Pre-processing: the offline context and the low-pass rendering *)

\* Mutant of ContextAccepts: the context built with a fixed 44100 Hz, so
\* the buffer's own sample rate is not checked.
ContextAcceptsAnyRate(buf) == buf.length >= 1

\* new OfflineAudioContext(1, length, sampleRate) throws NotSupportedError
\* for a length of 0 and for a sample rate outside the range the browser
\* supports (the widest range a browser accepts is 3000 .. 768000 Hz).
ContextAccepts(buf) ==
  /\ buf.length >= 1
  /\ buf.sampleRate >= 3000
  /\ buf.sampleRate <= 768000

\* The exception the synchronous part raises for this argument, or "none".
SetupError(buf) ==
  IF buf.null THEN "TypeError"
  ELSE IF ~ContextAccepts(buf) THEN "NotSupportedError"
  ELSE "none"

\* renderedBuffer.getChannelData(0): a new buffer of audioBuffer.length
\* samples at audioBuffer.sampleRate.  The biquad (browser code) is a linear
\* filter with unit gain below its 150 Hz cut-off; the samples of a model
\* buffer stand for the content the filter passes, so a buffer is named by
\* its rendering and silence renders to silence.
LowPassRender(buf) == [length |-> buf.length, samples |-> buf.samples]

-----------------------------------------------------------------------------
(* 2. Find the loudest 30 s window *)

WindowSeconds == 30
ScanSeconds == 2
EnergyStride == 1000

WindowSize(sr) == WindowSeconds * sr
ScanStep(sr) == ScanSeconds * sr

\* The inner loop: energy += Math.abs(data[i + j]) for j = 0, 1000, ... < windowSize.
CoarseEnergy(d, i, windowSize) ==
  LET hit == {p \in DOMAIN d.samples :
                p >= i /\ p < i + windowSize /\ (p - i) % EnergyStride = 0}
  IN SumFn([p \in hit |-> Abs(d.samples[p])], hit)

RECURSIVE ScanFromAlwaysMoves(_, _, _, _, _)
\* Mutant of ScanFrom: `maxOffset = i` placed after the if, not inside it.
ScanFromAlwaysMoves(d, sr, i, maxEnergy, offset) ==
  IF i < d.length - WindowSize(sr)
  THEN LET energy == CoarseEnergy(d, i, WindowSize(sr))
       IN ScanFromAlwaysMoves(d, sr, i + ScanStep(sr), Max(energy, maxEnergy), i)
  ELSE offset

RECURSIVE ScanFrom(_, _, _, _, _)
\* The outer loop from offset i on, with the loop variables maxEnergy and
\* maxOffset; yields the final maxOffset.
ScanFrom(d, sr, i, maxEnergy, offset) ==
  IF i < d.length - WindowSize(sr)
  THEN LET energy == CoarseEnergy(d, i, WindowSize(sr))
       IN IF energy > maxEnergy
          THEN ScanFrom(d, sr, i + ScanStep(sr), energy, i)
          ELSE ScanFrom(d, sr, i + ScanStep(sr), maxEnergy, offset)
  ELSE offset

\* maxOffset after the scan (0 when the buffer is not scanned).
SelectOffset(d, sr) ==
  IF d.length > WindowSize(sr) THEN ScanFrom(d, sr, 0, 0, 0) ELSE 0

\* Mutant of SelectWindow: data.slice(maxOffset), the end of the window not
\* given.
SelectWindowToEnd(d, sr) ==
  IF d.length > WindowSize(sr)
  THEN Slice(d, SelectOffset(d, sr), d.length)
  ELSE d

\* data after step 2: the 30 s slice at maxOffset, or the whole rendering
\* when it is not longer than 30 s.
SelectWindow(d, sr) ==
  IF d.length > WindowSize(sr)
  THEN LET off == SelectOffset(d, sr) IN Slice(d, off, off + WindowSize(sr))
  ELSE d

-----------------------------------------------------------------------------
(* 3. Peak detection *)

\* Math.floor(sampleRate / 100)
GroupSize(sr) == sr \div 100

\* Math.sqrt(sum / groupSize) on a fixed-point grid of 1/1000.
RmsScale == 1000 * 1000
Rms(sum, groupSize) == ISqrt((sum * RmsScale) \div groupSize)

\* Mutant of PushLevels: the loop stops before a window that is not full
\* (i + groupSize <= data.length).
PushLevelsFullOnly(before, d, groupSize) ==
  LET n     == d.length \div groupSize
      loud  == {p \div groupSize : p \in DOMAIN d.samples} \cap 0 .. n - 1
      sq(w) == LET in == {p \in DOMAIN d.samples : p \div groupSize = w}
               IN SumFn([p \in in |-> d.samples[p] * d.samples[p]], in)
      new   == [w \in loud |-> Rms(sq(w), groupSize)]
  IN [length |-> before.length + n,
      values |-> [w \in DOMAIN before.values \cup {before.length + x : x \in loud} |->
                    IF w < before.length THEN before.values[w]
                    ELSE new[w - before.length]]]

\* The RMS loop pushing onto the array `before`: one entry per step of
\* groupSize samples, the last window shorter when groupSize does not divide
\* data.length.
PushLevels(before, d, groupSize) ==
  LET n     == (d.length + groupSize - 1) \div groupSize
      loud  == {p \div groupSize : p \in DOMAIN d.samples}
      sq(w) == LET in == {p \in DOMAIN d.samples : p \div groupSize = w}
               IN SumFn([p \in in |-> d.samples[p] * d.samples[p]], in)
      new   == [w \in loud |-> Rms(sq(w), groupSize)]
  IN [length |-> before.length + n,
      values |-> [w \in DOMAIN before.values \cup {before.length + x : x \in loud} |->
                    IF w < before.length THEN before.values[w]
                    ELSE new[w - before.length]]]

\* Mutant of ComputeLevels: volumeLevels declared at module scope, so a call
\* pushes onto what an earlier call left there.
ComputeLevelsShared(d, groupSize) ==
  LET left == {c \in Calls : volumeLevels[c].length > 0}
  IN PushLevels(IF left = {} THEN NoLevels
                ELSE volumeLevels[CHOOSE c \in left : TRUE], d, groupSize)

\* const volumeLevels = [] and the RMS loop
ComputeLevels(d, groupSize) == PushLevels(NoLevels, d, groupSize)

\* volumeLevels[i]
Level(v, i) == IF i \in DOMAIN v.values THEN v.values[i] ELSE 0

Range == 50

\* localSum over j = max(0, i - range) .. min(length, i + range) - 1
LocalSum(v, i) ==
  LET near == {j \in DOMAIN v.values :
                 j >= Max(0, i - Range) /\ j < Min(v.length, i + Range)}
  IN SumFn([j \in near |-> v.values[j]], near)

LocalCount(v, i) == Min(v.length, i + Range) - Max(0, i - Range)

\* Mutant of AboveThreshold: the comparison not strict.
AtOrAboveThreshold(v, i) ==
  Level(v, i) * LocalCount(v, i) * 10 >= LocalSum(v, i) * 13

\* current > localAvg * 1.3, with localAvg = localSum / count
AboveThreshold(v, i) ==
  Level(v, i) * LocalCount(v, i) * 10 > LocalSum(v, i) * 13

IsLocalMax(v, i) ==
  /\ (i = 0 \/ Level(v, i) >= Level(v, i - 1))
  /\ (i = v.length - 1 \/ Level(v, i) >= Level(v, i + 1))

\* Mutant of FarEnough: the gap compared with 0.1 s.
FarEnoughTenth(time, last, sr) == 10 * (time - last) > sr

\* time - peaks[peaks.length - 1] > 0.2, times in samples
FarEnough(time, last, sr) == 5 * (time - last) > sr

\* The array reads of the stages, as ranges [from, to] of indices: one range
\* for each pass of an outer loop, from the lowest to the highest index the
\* pass reads.

\* data[i + j] of the scan: i = 0, scanStep, ... < data.length - windowSize,
\* j = 0, 1000, ... < windowSize.
ScanReads(d, sr) ==
  IF d.length > WindowSize(sr)
  THEN {[from |-> k * ScanStep(sr),
         to   |-> k * ScanStep(sr)
                    + ((WindowSize(sr) - 1) \div EnergyStride) * EnergyStride] :
          k \in 0 .. (d.length - WindowSize(sr) - 1) \div ScanStep(sr)}
  ELSE {}

\* data.slice(maxOffset, maxOffset + windowSize)
SliceReads(d, sr, offset) ==
  IF d.length > WindowSize(sr)
  THEN {[from |-> offset, to |-> offset + WindowSize(sr) - 1]}
  ELSE {}

\* Mutant of RmsReads: the inner loop without `i + j < data.length`.
RmsReadsUnguarded(d, groupSize) ==
  {[from |-> w * groupSize, to |-> w * groupSize + groupSize - 1] :
     w \in 0 .. (d.length + groupSize - 1) \div groupSize - 1}

\* data[i + j] of the RMS loop: i = 0, groupSize, ... < data.length,
\* j < groupSize && i + j < data.length.
RmsReads(d, groupSize) ==
  {[from |-> w * groupSize,
    to   |-> Min(w * groupSize + groupSize, d.length) - 1] :
     w \in 0 .. (d.length + groupSize - 1) \div groupSize - 1}

\* volumeLevels[i] and volumeLevels[j] of the local mean, for every i.
LocalMeanReads(v) ==
  {[from |-> Min(i, Max(0, i - Range)),
    to   |-> Max(i, Min(v.length, i + Range) - 1)] : i \in 0 .. v.length - 1}

\* volumeLevels[i-1] and volumeLevels[i+1] of the local-maximum test, each
\* behind its `i === 0 ||` or `i === volumeLevels.length - 1 ||`.
NeighbourReads(v) ==
  {[from |-> IF i = 0 THEN i ELSE i - 1,
    to   |-> IF i = v.length - 1 THEN i ELSE i + 1] : i \in 0 .. v.length - 1}

RECURSIVE Debounce(_, _, _, _)
\* The times (in samples) the threshold loop pushes for the indices `todo`
\* that pass the peak test, taken in ascending order, when the last peak
\* pushed before them is at `last` (-1: peaks is still empty).  The time of
\* index i is i * groupSize / sampleRate.
Debounce(todo, last, groupSize, sr) ==
  IF todo = {} THEN <<>>
  ELSE IF Cardinality(todo) = 1
  THEN LET time == SetMin(todo) * groupSize
       IN IF last < 0 \/ FarEnough(time, last, sr) THEN <<time>> ELSE <<>>
  ELSE LET mid   == MidOf(todo)
           lower == Debounce({i \in todo : i <= mid}, last, groupSize, sr)
           prev  == IF lower = <<>> THEN last ELSE lower[Len(lower)]
       IN lower \o Debounce({i \in todo : i > mid}, prev, groupSize, sr)

\* Mutant of FindPeaks: peaks declared at module scope, so the debounce of a
\* call starts from the last onset an earlier call left there.
FindPeaksShared(v, groupSize, sr) ==
  LET left == {c \in Calls : peaks[c] # <<>>}
      last == IF left = {} THEN 0 - 1
              ELSE LET pk == peaks[CHOOSE c \in left : TRUE] IN pk[Len(pk)]
  IN Debounce({i \in 0 .. v.length - 1 : AboveThreshold(v, i) /\ IsLocalMax(v, i)},
              last, groupSize, sr)

FindPeaks(v, groupSize, sr) ==
  Debounce({i \in 0 .. v.length - 1 : AboveThreshold(v, i) /\ IsLocalMax(v, i)},
           0 - 1, groupSize, sr)

-----------------------------------------------------------------------------
(* 4. Interval analysis *)

LookAhead == 5

\* Mutant of InRange: the lower bound dropped.
InRangeNoLower(interval, sr) == interval <= sr

\* Mutant of InRange: the upper comparison strict.
InRangeBelowOne(interval, sr) == 100 * interval >= 33 * sr /\ interval < sr

\* interval >= 0.33 && interval <= 1.0, interval in samples
InRange(interval, sr) == 100 * interval >= 33 * sr /\ interval <= sr

RECURSIVE PairsFrom(_, _, _, _)
\* The inner loop `for (i = 1; i < 5; i++)` for the peak at position k
\* (1-based here), from i on: the intervals it pushes.  `!nextPeak` is true
\* past the end of the array and for a peak time of 0.
PairsFrom(pk, k, i, sr) ==
  IF i >= LookAhead THEN <<>>
  ELSE IF k + i > Len(pk) \/ pk[k + i] = 0 THEN <<>>
  ELSE LET interval == pk[k + i] - pk[k]
       IN (IF InRange(interval, sr) THEN <<interval>> ELSE <<>>)
            \o PairsFrom(pk, k, i + 1, sr)

\* The pairs of positions (k, k + i) the inner loop reads for the peak at
\* position k: i = 1 .. 4, up to the first `!nextPeak`.
Examined(pk) ==
  {pair \in (1 .. Len(pk)) \X (1 .. Len(pk)) :
     /\ pair[2] > pair[1] /\ pair[2] - pair[1] < LookAhead
     /\ \A m \in pair[1] + 1 .. pair[2] : pk[m] # 0}

RECURSIVE CollectFrom(_, _, _, _)
\* The pushes of the peaks at positions lo .. hi, in order.
CollectFrom(pk, lo, hi, sr) ==
  IF lo > hi THEN <<>>
  ELSE IF lo = hi THEN PairsFrom(pk, lo, 1, sr)
  ELSE CollectFrom(pk, lo, (lo + hi) \div 2, sr)
         \o CollectFrom(pk, (lo + hi) \div 2 + 1, hi, sr)

\* peaks.forEach(...)
CollectIntervals(pk, sr) == CollectFrom(pk, 1, Len(pk), sr)

-----------------------------------------------------------------------------
(* 5. Histogram *)

\* Mutant of BpmOf: Math.floor for Math.round.
BpmOfFloor(interval, sr) == (60 * sr) \div interval

\* Math.round(60 / interval)
BpmOf(interval, sr) == RoundDiv(60 * sr, interval)

\* Mutant of VoteWeight: the two weights exchanged.
VoteWeightSwapped(bpm, k) ==
  IF k = bpm THEN 1 ELSE IF k = bpm - 1 \/ k = bpm + 1 THEN 4 ELSE 0

\* Mutant of VoteWeight: the neighbours get 0.5.
VoteWeightHalf(bpm, k) ==
  IF k = bpm THEN 4 ELSE IF k = bpm - 1 \/ k = bpm + 1 THEN 2 ELSE 0

\* What one interval of tempo bpm adds to histogram[k], in quarters:
\* weight 1 to its own bin, 0.25 to each of the two neighbouring bins.
VoteWeight(bpm, k) ==
  IF k = bpm THEN 4
  ELSE IF k = bpm - 1 \/ k = bpm + 1 THEN 1
  ELSE 0

\* intervals.forEach(...): the keys are the bins some interval touched, and
\* histogram[k] = (histogram[k] || 0) + w accumulates over the intervals.
BuildHistogram(ivs, sr) ==
  LET bpm  == [n \in 1 .. Len(ivs) |-> BpmOf(ivs[n], sr)]
      keys == UNION {{bpm[n] - 1, bpm[n], bpm[n] + 1} : n \in 1 .. Len(ivs)}
  IN [k \in keys |->
        SumFn([n \in 1 .. Len(ivs) |-> VoteWeight(bpm[n], k)], 1 .. Len(ivs))]

\* Mutant of BestCandidate: among candidates of equal weight the last key
\* comes first (a sort that is not stable).
BestCandidateLastOfTies(h) ==
  CHOOSE b \in DOMAIN h :
    \A c \in DOMAIN h : h[b] > h[c] \/ (h[b] = h[c] /\ b >= c)

\* Mutant of BestCandidate: the comparator sorts by ascending weight.
BestCandidateAscending(h) ==
  CHOOSE b \in DOMAIN h :
    \A c \in DOMAIN h : h[b] < h[c] \/ (h[b] = h[c] /\ b <= c)

\* candidates[0]: Object.keys lists integer keys in ascending order and the
\* sort by descending weight is stable, so the first candidate is the
\* smallest key among those of maximal weight.
BestCandidate(h) ==
  CHOOSE b \in DOMAIN h :
    \A c \in DOMAIN h : h[b] > h[c] \/ (h[b] = h[c] /\ b <= c)

-----------------------------------------------------------------------------
(* 6. Post-processing *)

MinBpm == 70
MaxBpm == 185

RECURSIVE DoubleUpBelow60(_)
\* Mutant of DoubleUp: the loop bound taken from the interval filter's 60.
DoubleUpBelow60(b) == IF b < 60 THEN DoubleUpBelow60(2 * b) ELSE b

RECURSIVE DoubleUpThrough70(_)
\* Mutant of DoubleUp: `<=` for `<`.
DoubleUpThrough70(b) == IF b <= MinBpm THEN DoubleUpThrough70(2 * b) ELSE b

RECURSIVE DoubleUp(_)
\* while (bestBpm < 70) bestBpm *= 2
DoubleUp(b) == IF b < MinBpm THEN DoubleUp(2 * b) ELSE b

RECURSIVE HalveDownInclusive(_, _)
\* Mutant of HalveDown: `>=` for `>`.
HalveDownInclusive(num, den) ==
  IF num >= MaxBpm * den THEN HalveDownInclusive(num, 2 * den) ELSE <<num, den>>

RECURSIVE HalveDownOnce(_, _)
\* Mutant of HalveDown: `if` for `while`.
HalveDownOnce(num, den) ==
  IF num > MaxBpm * den THEN <<num, 2 * den>> ELSE <<num, den>>

RECURSIVE HalveDown(_, _)
\* while (bestBpm > 185) bestBpm /= 2, on the fraction num / den
HalveDown(num, den) ==
  IF num > MaxBpm * den THEN HalveDown(num, 2 * den) ELSE <<num, den>>

\* The two loops and Math.round(bestBpm)
OctaveCorrect(b) ==
  LET f == HalveDown(DoubleUp(b), 1) IN RoundDiv(f[1], f[2])

\* Largest raw candidate handed to the range-forcing loops on their own.
MaxRaw == 750

\* The loops start from a positive integer raw candidate; nothing has been
\* corrected yet.
OctaveInit(raws) == rawBpm \in raws /\ corrected = <<>>

\* A raw candidate, its double and its quadruple: the tempo read at the
\* beat, at half the beat and at a quarter of it.
Harmonics(raw) == {raw, 2 * raw, 4 * raw}

\* `while (bestBpm < 70) ...; while (bestBpm > 185) ...;
\* return Math.round(bestBpm)` run with bestBpm = raw.
CorrectOctave(raw) ==
  /\ raw \notin DOMAIN corrected
  /\ corrected' = [r \in DOMAIN corrected \cup {raw} |->
                     IF r = raw THEN OctaveCorrect(raw) ELSE corrected[r]]
  /\ UNCHANGED <<rawBpm, bpmVars, dialogVars, dbVars, peakVars, appVars>>

NextOctave == \E raw \in Harmonics(rawBpm) : CorrectOctave(raw)

\* Mutant of Returned: the early return dropped; Math.round(undefined) is
\* NaN, written -1.
ReturnedUnguarded(ivs, best) == IF ivs = <<>> THEN -1 ELSE OctaveCorrect(best)

\* `if (intervals.length === 0) return 0`, else the corrected best candidate
Returned(ivs, best) == IF ivs = <<>> THEN 0 ELSE OctaveCorrect(best)

\* Mutant of CatchResult: the catch block reports the failure as -1.
CatchResultMinusOne == 0 - 1

\* `return 0` of the catch block
CatchResult == 0

-----------------------------------------------------------------------------
(* Actions *)

\* The call runs up to `await offlineCtx.startRendering()`.  A TypeError
\* (null argument) or the context's NotSupportedError is caught by the
\* try block: the call returns 0.
Invoke(c) ==
  /\ pc[c] = "start"
  /\ LET err == SetupError(audioBuffer[c])
     IN IF err = "none"
        THEN /\ pc' = [pc EXCEPT ![c] = "rendering"]
             /\ UNCHANGED <<threw, settled, result>>
        ELSE /\ pc' = [pc EXCEPT ![c] = "done"]
             /\ threw' = [threw EXCEPT ![c] = err]
             /\ settled' = [settled EXCEPT ![c] = "fulfilled"]
             /\ result' = [result EXCEPT ![c] = CatchResult]
  /\ UNCHANGED <<audioBuffer, data, maxOffset, volumeLevels, peaks, intervals,
                 histogram, bestBpm>>
  /\ UNCHANGED <<dialogVars, dbVars, octaveVars, peakVars, appVars>>

\* for (let i = 0; i < data.length - windowSize; i += scanStep) ends: it is
\* not entered, or i advances.  Its inner loop advances j by 1000.
ScanEnds(d, sr) == d.length <= WindowSize(sr) \/ ScanStep(sr) > 0

\* for (let i = 0; i < data.length; i += groupSize) ends: it is not entered,
\* or i advances.
EnvelopeEnds(len, groupSize) == len <= 0 \/ groupSize > 0

\* while (bestBpm < 70) bestBpm *= 2 ends: it is not entered, or doubling
\* raises bestBpm.  while (bestBpm > 185) bestBpm /= 2 ends for every number.
OctaveEnds(best) == best >= MinBpm \/ best > 0

\* The rendering resolves and the rest of the function runs to completion,
\* unless one of its loops never ends: then the call stays inside that loop.
\* The threshold loop (i++ up to volumeLevels.length), peaks.forEach with
\* its four-step inner loop and intervals.forEach are bounded by the arrays
\* they walk.
RenderResolve(c) ==
  LET sr       == audioBuffer[c].sampleRate
      rendered == LowPassRender(audioBuffer[c])
  IN /\ pc[c] = "rendering"
     /\ IF /\ ScanEnds(rendered, sr)
           /\ EnvelopeEnds(Min(rendered.length, WindowSize(sr)), GroupSize(sr))
        THEN /\ maxOffset' = [maxOffset EXCEPT ![c] = SelectOffset(rendered, sr)]
             /\ data' = [data EXCEPT ![c] = SelectWindow(rendered, sr)]
             /\ volumeLevels' =
                  [volumeLevels EXCEPT
                     ![c] = ComputeLevels(data'[c], GroupSize(sr))]
             /\ peaks' =
                  [peaks EXCEPT
                     ![c] = FindPeaks(volumeLevels'[c], GroupSize(sr), sr)]
             /\ intervals' =
                  [intervals EXCEPT ![c] = CollectIntervals(peaks'[c], sr)]
             /\ histogram' =
                  [histogram EXCEPT
                     ![c] = IF intervals'[c] = <<>> THEN <<>>
                            ELSE BuildHistogram(intervals'[c], sr)]
             /\ bestBpm' =
                  [bestBpm EXCEPT
                     ![c] = IF intervals'[c] = <<>> THEN 0
                            ELSE BestCandidate(histogram'[c])]
             /\ IF intervals'[c] = <<>> \/ OctaveEnds(bestBpm'[c])
                THEN /\ result' =
                          [result EXCEPT
                             ![c] = Returned(intervals'[c], bestBpm'[c])]
                     /\ pc' = [pc EXCEPT ![c] = "done"]
                     /\ settled' = [settled EXCEPT ![c] = "fulfilled"]
                ELSE /\ pc' = [pc EXCEPT ![c] = "looping"]
                     /\ UNCHANGED <<result, settled>>
        ELSE /\ pc' = [pc EXCEPT ![c] = "looping"]
             /\ UNCHANGED <<data, maxOffset, volumeLevels, peaks, intervals,
                            histogram, bestBpm, result, settled>>
     /\ UNCHANGED <<audioBuffer, threw>>
     /\ UNCHANGED <<dialogVars, dbVars, octaveVars, peakVars, appVars>>

\* The rendering promise rejects: the catch block returns 0.
RenderReject(c) ==
  /\ pc[c] = "rendering"
  /\ pc' = [pc EXCEPT ![c] = "done"]
  /\ threw' = [threw EXCEPT ![c] = "RenderError"]
  /\ settled' = [settled EXCEPT ![c] = "fulfilled"]
  /\ result' = [result EXCEPT ![c] = CatchResult]
  /\ UNCHANGED <<audioBuffer, data, maxOffset, volumeLevels, peaks, intervals,
                 histogram, bestBpm>>
  /\ UNCHANGED <<dialogVars, dbVars, octaveVars, peakVars, appVars>>

Next ==
  \/ \E c \in Calls : Invoke(c)
  \/ \E c \in Calls : RenderResolve(c)
  \/ \E c \in Calls : RenderReject(c)

-----------------------------------------------------------------------------
(* The track store and its backup: services/db.ts *)

\* Ids and backup lengths of the model.
MaxTrackId == 2
MaxBackupLen == 2

Titles == {"a", "b"}

\* A stored track: createObjectStore(STORE_NAME, { keyPath: 'id' }) gives
\* every stored track a valid key, its id.  The other fields of Track are
\* stood for by the title.
Tracks == [id : 1 .. MaxTrackId, title : Titles]

\* A track of a backup file, which anyone may have written: id 0 stands for
\* an entry without an id.
FileTracks == [id : 0 .. MaxTrackId, title : Titles]

Ids(S) == {t.id : t \in S}

\* The content of a file: whether JSON.parse accepts it, whether the parsed
\* value has a `tracks` array, and that array.
Json(tracks) == [parses |-> TRUE, hasTracks |-> TRUE, tracks |-> tracks]
NotJson == [parses |-> FALSE, hasTracks |-> FALSE, tracks |-> <<>>]
NoTracksField == [parses |-> TRUE, hasTracks |-> FALSE, tracks |-> <<>>]

RECURSIVE InKeyOrder(_)
\* store.getAll(): the stored tracks in ascending key order.
InKeyOrder(S) ==
  IF S = {} THEN <<>>
  ELSE LET first == CHOOSE t \in S : \A u \in S : t.id <= u.id
       IN <<first>> \o InKeyOrder(S \ {first})

\* exportData(): JSON.stringify({version, timestamp, tracks}) of getAllTracks().
ExportOf(S) == Json(InKeyOrder(S))

\* The files a user may pick for a restore that no export of this store
\* wrote.
ForeignFiles ==
  {NotJson, NoTracksField}
    \cup {Json(ts) : ts \in UNION {[1 .. n -> FileTracks] : n \in 0 .. MaxBackupLen}}

StoreInit ==
  /\ store = {}
  /\ exported = <<>>
  /\ jsonString = NotJson
  /\ importPhase = "idle"

\* isProcessing of SettingsModal: set for the time of an export, a restore or
\* a reset, and disabling the three buttons.
IsProcessing == importPhase \in {"clearing", "adding"}

\* addTrackToDB(track): store.add fails when the key is taken.
AddTrackToDB(track) ==
  /\ track.id \notin Ids(store)
  /\ store' = store \cup {track}
  /\ UNCHANGED <<exported, jsonString, importPhase, bpmVars, dialogVars, octaveVars, peakVars, appVars>>

\* updateTrackInDB(track): store.put replaces the track of that key.
UpdateTrackInDB(track) ==
  /\ track \notin store
  /\ store' = {t \in store : t.id # track.id} \cup {track}
  /\ UNCHANGED <<exported, jsonString, importPhase, bpmVars, dialogVars, octaveVars, peakVars, appVars>>

\* deleteTrackFromDB(id)
DeleteTrackFromDB(id) ==
  /\ id \in Ids(store)
  /\ store' = {t \in store : t.id # id}
  /\ UNCHANGED <<exported, jsonString, importPhase, bpmVars, dialogVars, octaveVars, peakVars, appVars>>

\* handleReset: clearDB() from the Factory Reset button.
ClearDB ==
  /\ ~IsProcessing
  /\ store # {}
  /\ store' = {}
  /\ UNCHANGED <<exported, jsonString, importPhase, bpmVars, dialogVars, octaveVars, peakVars, appVars>>

\* handleExport: exportData() from the Backup button.
ExportData ==
  /\ ~IsProcessing
  /\ exported' = <<ExportOf(store)>>
  /\ UNCHANGED <<store, jsonString, importPhase, bpmVars, dialogVars, octaveVars, peakVars, appVars>>

\* handleFileChange: importData(text) up to its first await.  JSON.parse
\* throws, or the format check throws, and the catch block rethrows; otherwise
\* clearDB() is started.
ImportData(text) ==
  /\ ~IsProcessing
  /\ jsonString' = text
  /\ importPhase' = IF text.parses /\ text.hasTracks THEN "clearing" ELSE "rejected"
  /\ UNCHANGED <<store, exported, bpmVars, dialogVars, octaveVars, peakVars, appVars>>

\* The transaction of clearDB() is done and importData goes on to open its
\* own transaction.
ImportCleared ==
  /\ importPhase = "clearing"
  /\ store' = {}
  /\ importPhase' = "adding"
  /\ UNCHANGED <<exported, jsonString, bpmVars, dialogVars, octaveVars, peakVars, appVars>>

\* The tracks store.add is called with: all of them, or those before the
\* first one without a key, at which store.add throws DataError.
Requested(tracks) ==
  LET keyless == {n \in 1 .. Len(tracks) : tracks[n].id = 0}
  IN IF keyless = {} THEN tracks
     ELSE SubSeq(tracks, 1, SetMin(keyless) - 1)

\* One of the add requests fails with ConstraintError: its key is in the
\* store or was added by an earlier request.  Nothing handles the error, so
\* the transaction aborts.
Aborts(S, tracks) ==
  \/ \E n \in 1 .. Len(tracks) : tracks[n].id \in Ids(S)
  \/ \E m, n \in 1 .. Len(tracks) : m < n /\ tracks[m].id = tracks[n].id

\* The store after the transaction that adds `tracks`.
AfterAdds(S, tracks) ==
  IF Aborts(S, tracks) THEN S
  ELSE S \cup {tracks[n] : n \in 1 .. Len(tracks)}

\* The second transaction of importData: the loop of store.add calls and the
\* end of the transaction.  The promise resolves with data.tracks on
\* oncomplete and rejects on onerror or on the exception of store.add.
ImportAdded ==
  LET tracks == jsonString.tracks
  IN /\ importPhase = "adding"
     /\ store' = AfterAdds(store, Requested(tracks))
     /\ importPhase' =
          IF Requested(tracks) = tracks /\ ~Aborts(store, tracks)
          THEN "fulfilled" ELSE "rejected"
     /\ UNCHANGED <<exported, jsonString, bpmVars, dialogVars, octaveVars, peakVars, appVars>>

NextBackup ==
  \/ \E track \in Tracks : AddTrackToDB(track)
  \/ \E track \in Tracks : UpdateTrackInDB(track)
  \/ \E id \in 1 .. MaxTrackId : DeleteTrackFromDB(id)
  \/ ClearDB
  \/ ExportData
  \/ \E text \in ForeignFiles \cup {exported[n] : n \in DOMAIN exported} :
       ImportData(text)
  \/ ImportCleared
  \/ ImportAdded

-----------------------------------------------------------------------------
(* The import dialog: components/AddTrackModal.tsx *)

MAX_FILES == 10

\* Ids given out in a run of the model (each stands for one
\* Math.random().toString(36) id).
MaxDraftIds == 12

\* useState([]) and useState(null); the first render shows the empty list.
DialogInit ==
  /\ drafts = <<>>
  /\ renderedDrafts = <<>>
  /\ globalError = "none"
  /\ nextDraftId = 1

\* A list of dropped or selected files: so many whose type starts with
\* 'audio/' and so many others.
Batches == [audio : {0, 1, 3, 5, 8, MAX_FILES + 1}, other : 0 .. 1]

\* files.filter(f => f.type.startsWith('audio/')).length
ValidFiles(files) == files.audio

\* prev.filter(d => d.id !== id)
WithoutDraft(prev, id) == SelectSeq(prev, LAMBDA d : d # id)

\* currentCount + validFiles.length > MAX_FILES
OverLimit(currentCount, validFiles) == currentCount + validFiles > MAX_FILES

\* processFiles(files), called by handleFileChange and by handleDrop, both
\* rendered only while drafts.length < MAX_FILES.  currentCount is
\* drafts.length of the render the handler belongs to; setDrafts is given
\* an updater, which is applied to the committed state.  The FileReader
\* callbacks that follow replace drafts in place and keep their number.
ProcessFiles(files) ==
  /\ Len(renderedDrafts) < MAX_FILES
  /\ IF ValidFiles(files) = 0
     THEN /\ globalError' = "none"
          /\ UNCHANGED <<drafts, nextDraftId>>
     ELSE IF OverLimit(Len(renderedDrafts), ValidFiles(files))
     THEN /\ globalError' = "limit"
          /\ UNCHANGED <<drafts, nextDraftId>>
     ELSE /\ nextDraftId + ValidFiles(files) - 1 <= MaxDraftIds
          /\ globalError' = "none"
          /\ drafts' = drafts \o [n \in 1 .. ValidFiles(files) |-> nextDraftId + n - 1]
          /\ nextDraftId' = nextDraftId + ValidFiles(files)
  /\ UNCHANGED <<renderedDrafts, bpmVars, dbVars, octaveVars, peakVars, appVars>>

\* removeDraft(id), from the button of a draft the last render lists (the
\* first or the last of the list).
RemoveDraft(id) ==
  /\ \E n \in {1, Len(renderedDrafts)} \cap DOMAIN renderedDrafts :
       renderedDrafts[n] = id
  /\ drafts' = WithoutDraft(drafts, id)
  /\ UNCHANGED <<renderedDrafts, globalError, nextDraftId, bpmVars, dbVars, octaveVars, peakVars, appVars>>

\* handleSubmit, from the button that is disabled while drafts.length === 0:
\* a draft without title or prompt sets the error, otherwise the drafts go
\* to onAdd and the dialog is reset.
HandleSubmit(incomplete) ==
  /\ Len(renderedDrafts) # 0
  /\ IF incomplete
     THEN globalError' = "incomplete" /\ UNCHANGED drafts
     ELSE globalError' = "none" /\ drafts' = <<>>
  /\ UNCHANGED <<renderedDrafts, nextDraftId, bpmVars, dbVars, octaveVars, peakVars, appVars>>

\* React renders the component with the committed state; the handlers of
\* this render replace those of the previous one.
Render ==
  /\ renderedDrafts # drafts
  /\ renderedDrafts' = drafts
  /\ UNCHANGED <<drafts, globalError, nextDraftId, bpmVars, dbVars, octaveVars, peakVars, appVars>>

NextDialog ==
  \/ \E files \in Batches : ProcessFiles(files)
  \/ \E id \in 1 .. MaxDraftIds : RemoveDraft(id)
  \/ \E incomplete \in BOOLEAN : HandleSubmit(incomplete)
  \/ Render

-----------------------------------------------------------------------------
(* Arguments the calls are made with *)

\* ms milliseconds in samples
Ms(sr, ms) == (ms \div 1000) * sr + ((ms % 1000) * sr) \div 1000

Silence(sr, len) == Buffer(sr, len, <<>>)

\* A dense array of values, the zeros left implicit.
Dense(sr, f) ==
  Buffer(sr, Len(f), [p \in {q - 1 : q \in {x \in DOMAIN f : f[x] # 0}} |-> f[p + 1]])

RECURSIVE GapSum(_, _)
\* gaps[1] + ... + gaps[k]
GapSum(gaps, k) == IF k = 0 THEN 0 ELSE gaps[k] + GapSum(gaps, k - 1)

\* Impulses of amplitude amp, the first `first` ms into the buffer, the next
\* ones after the gaps (ms) in turn; the buffer ends `tail` ms after the last.
Impulses(sr, first, gaps, amp, tail) ==
  LET at == {Ms(sr, first + GapSum(gaps, k)) : k \in 0 .. Len(gaps)}
  IN Buffer(sr, Ms(sr, first + GapSum(gaps, Len(gaps)) + tail), [p \in at |-> amp])

MaxImpulses == 3
MaxShortLen == 3

GapsMs == {150, 205, 330, 500, 700, 900, 1000}
FirstMs == {0, 7}
Rates == {44100, 11025}
ShortValues == {-2, 0, 1}
SilentLengths == {1, 5, 441, 442, 44100, 100000}

GapSeqs == UNION {[1 .. n -> GapsMs] : n \in 0 .. MaxImpulses - 1}

Rejected ==
  {NullBuffer, Silence(0, 44100), Silence(50, 5), Silence(44100, 0),
   Silence(99, 500), Silence(2999, 3000)}

Silent == {Silence(sr, len) : sr \in Rates, len \in SilentLengths}

Short ==
  {Dense(44100, f) : f \in UNION {[1 .. n -> ShortValues] : n \in 1 .. MaxShortLen}}

Trains ==
  {Impulses(sr, first, gaps, 5, 20) : sr \in Rates, first \in FirstMs, gaps \in GapSeqs}

\* 0.52 s: a weak impulse at the start and a strong one 0.5 s (50 windows)
\* later.
Uneven ==
  {Buffer(sr, Ms(sr, 520), (0 :> 1) @@ (Ms(sr, 500) :> strong)) :
     sr \in Rates, strong \in {5, 40}}

Inputs == Rejected \cup Silent \cup Short \cup Trains \cup Uneven

\* n impulses of amplitude amp, `period` samples apart, the first at sample
\* `first`; the buffer ends 20 ms after the last.
Periodic(sr, period, first, n, amp) ==
  Buffer(sr, first + (n - 1) * period + Ms(sr, 20),
         [p \in {first + k * period : k \in 0 .. n - 1} |-> amp])

MaxTrainLen == 4
MaxHarmonicLen == 12

TrainRates == {44100, 48000, 11025}
PeriodWindows == 32 .. 86

\* Periods of a whole number of envelope windows, and periods half a window
\* longer.
Periods(sr) ==
  {k * GroupSize(sr) : k \in PeriodWindows}
    \cup {k * GroupSize(sr) + GroupSize(sr) \div 2 : k \in PeriodWindows}

PeriodicTrains ==
  UNION {{Periodic(sr, period, Ms(sr, first), n, 5) :
            period \in Periods(sr), first \in FirstMs, n \in 2 .. MaxTrainLen} :
         sr \in TrainRates}

\* 60 / T = 140 at 44100 Hz: T = 3/7 s is 18900 samples.
HarmonicRate == 44100 * 1
HarmonicPeriod == (3 * HarmonicRate) \div 7
HarmonicPhases == {0, 63, 200, 440}

HarmonicTrains ==
  {Periodic(HarmonicRate, period, first, n, 5) :
     period \in {HarmonicPeriod, HarmonicPeriod \div 2, 2 * HarmonicPeriod},
     first \in HarmonicPhases, n \in 2 .. MaxHarmonicLen}

\* from, from + every, ... up to `to` (ms)
ClickTimes(from, to, every) ==
  {from + k * every : k \in 0 .. (to - from) \div every}

\* A buffer of `seconds` s, silent but for clicks of amplitude amp every
\* `every` ms from `from` ms to `to` ms, each `phase` samples late.
Clicks(sr, seconds, from, to, every, phase, amp) ==
  Buffer(sr, seconds * sr,
         [p \in {Ms(sr, t) + phase : t \in ClickTimes(from, to, every)} |-> amp])

MaxLongSeconds == 100

LongRates == {48000, 44100, 3000}
LongSeconds == {31, 46, 60, 90, MaxLongSeconds}
ClickPhases == {0, 1}

\* 40 s at 48000 Hz, clicks every 0.5 s from 5 s to 35 s.
Scenario == {Clicks(48000, 40, 5000, 35000, 500, phase, 5) : phase \in ClickPhases}

\* Clicks every 0.5 s in the middle third of the buffer: all of it, its
\* first second, its last second.
MiddleThird(sr, seconds, phase) ==
  LET a == (1000 * seconds + 2) \div 3
      b == (2000 * seconds) \div 3 - 1
  IN {Clicks(sr, seconds, a, b, 500, phase, 5),
      Clicks(sr, seconds, a, a + 1000, 500, phase, 5),
      Clicks(sr, seconds, b - 1000, b, 500, phase, 5)}

MiddleThirds ==
  UNION {MiddleThird(sr, seconds, phase) :
           sr \in LongRates, seconds \in LongSeconds, phase \in ClickPhases}

\* 32 s and 33 s, silent but for two clicks in the last second.
LateClicks ==
  {Clicks(sr, seconds, 1000 * seconds - 1000, 1000 * seconds - 500, 500, 0, 5) :
     sr \in LongRates, seconds \in {32, 33}}

\* 40 s at 11025 Hz, where floor(sampleRate / 100) = 110 does not divide
\* the 30 s window: clicks every 0.5 s from 5 s to 35 s.
OddRate == {Clicks(11025, 40, 5000, 35000, 500, phase, 5) : phase \in ClickPhases}

LongInputs ==
  Scenario \cup MiddleThirds \cup LateClicks \cup OddRate
    \cup {Silence(sr, 31 * sr) : sr \in LongRates}

\* Arguments of calls in flight together.
PairInputs ==
  {NullBuffer, Silence(44100, 0), Silence(44100, 4410)}
    \cup {Impulses(44100, 0, gaps, 5, 20) :
            gaps \in {<<500>>, <<900>>, <<330, 500>>, <<205, 205>>}}

TrainInputs == {NullBuffer} \cup PeriodicTrains \cup HarmonicTrains

-----------------------------------------------------------------------------
(* services/imageUtils.ts: the peak-based detectBPM.  Positions and
   intervals are counted in half samples, because partSize = 22050 / 4 is
   5512.5 samples. *)

\* Largest number of parts of an analysed slice.
MaxParts == 7

\* Twice `partSize = 22050 / 4`.
PartSize2 == 11025

\* Twice the `200 samples tolerance` of getIntervals.
Tolerance2 == 400

\* `i < 10` in getIntervals: the next 9 peaks are visited.
NeighbourSpan == 9

\* The bounds of `while (tempo < 60)` and `while (tempo > 180)`.
MinTempo == 60
MaxTempo == 180

\* Sample rates of the tracks; at 11025 and 33075 Hz two parts apart is
\* exactly 60 and 180 beats per minute.
PeakRates == {8000, 11025, 22050, 33075, 44100, 48000}

\* Loudest |sample| of a part, on a scale of 0 .. 2.
Volumes == 0 .. 2

\* A track whose analysed slice has Len(volume) parts.
TrackBuffers(n) == [sampleRate : PeakRates, volume : [1 .. n -> Volumes]]

PeakInit(tracks) ==
  /\ trackBuffer \in tracks
  /\ partPeaks = <<>>
  /\ groups = <<>>
  /\ topCandidates = <<>>
  /\ tempo = <<>>
  /\ tempoThrew = FALSE

\* `max` of part i (counted from 0): for an odd i the index j starts at
\* i * 5512.5 and is never an integer, data[0][j] is undefined and
\* `vol > max` is never true, so max stays 0.
PartMax(volume, i) == IF i % 2 = 1 THEN 0 ELSE volume[i + 1]

\* Place of part i after `peaks.sort((a, b) => b.volume - a.volume)`, a
\* stable sort of the parts listed by position.
LoudnessRank(volume, i) ==
  Cardinality({j \in 0 .. Len(volume) - 1 :
                 \/ PartMax(volume, j) > PartMax(volume, i)
                 \/ PartMax(volume, j) = PartMax(volume, i) /\ j < i})

\* getPeaks: the loudest half of the parts (`splice(0, peaks.length * 0.5)`
\* truncates the count), sorted by position again.
GetPeaks(volume) ==
  LET kept == {i \in 0 .. Len(volume) - 1 :
                 LoudnessRank(volume, i) < Len(volume) \div 2}
  IN [k \in 1 .. Cardinality(kept) |->
        PartSize2 * (CHOOSE i \in kept :
                       Cardinality({j \in kept : j < i}) = k - 1)]

\* `groups.find(...)`: the index of the first group within the tolerance of
\* the interval, 0 when there is none.
FindGroup(gs, interval) ==
  LET near == {n \in 1 .. Len(gs) :
                 Abs(gs[n].interval - interval) < Tolerance2}
  IN IF near = {} THEN 0 ELSE CHOOSE n \in near : \A m \in near : n <= m

\* `group.count++` or `groups.push({ interval, count: 1 })`
CountInterval(gs, interval) ==
  LET n == FindGroup(gs, interval)
  IN IF n = 0
     THEN Append(gs, [interval |-> interval, count |-> 1])
     ELSE [gs EXCEPT ![n].count = @ + 1]

RECURSIVE VisitNeighbours(_, _, _, _)
\* The inner loop of getIntervals for the peak at `index`, from neighbour i.
VisitNeighbours(pk, index, i, gs) ==
  IF i > NeighbourSpan \/ index + i > Len(pk) THEN gs
  ELSE VisitNeighbours(pk, index, i + 1,
                       CountInterval(gs, pk[index + i] - pk[index]))

RECURSIVE VisitPeaks(_, _, _)
\* peaks.forEach of getIntervals, from the peak at `index`.
VisitPeaks(pk, index, gs) ==
  IF index > Len(pk) THEN gs
  ELSE VisitPeaks(pk, index + 1, VisitNeighbours(pk, index, 1, gs))

GetIntervals(pk) == VisitPeaks(pk, 1, <<>>)

RECURSIVE DoubleTempo(_, _)
\* while (tempo < 60) tempo *= 2, on the fraction num / den
DoubleTempo(num, den) ==
  IF num < MinTempo * den THEN DoubleTempo(2 * num, den) ELSE <<num, den>>

\* Mutant of HalveTempo: `if` for `while`.
HalveTempoOnce(num, den) ==
  IF num > MaxTempo * den THEN <<num, 2 * den>> ELSE <<num, den>>

RECURSIVE HalveTempo(_, _)
\* while (tempo > 180) tempo /= 2, on the fraction num / den
HalveTempo(num, den) ==
  IF num > MaxTempo * den THEN HalveTempo(num, 2 * den) ELSE <<num, den>>

\* The two maps of getTempoCandidates for one group: 60 / (interval /
\* sampleRate), folded; the interval is in half samples.
FoldedTempo(interval, sr) ==
  LET up == DoubleTempo(120 * sr, interval) IN HalveTempo(up[1], up[2])

\* getTempoCandidates: the folded candidates after the stable
\* `.sort((a, b) => b.count - a.count)`.
GetTempoCandidates(gs, sr) ==
  LET place(n) == Cardinality({m \in 1 .. Len(gs) :
                                 \/ gs[m].count > gs[n].count
                                 \/ gs[m].count = gs[n].count /\ m < n})
      at(k) == CHOOSE n \in 1 .. Len(gs) : place(n) = k - 1
  IN [k \in 1 .. Len(gs) |->
        [tempo |-> FoldedTempo(gs[at(k)].interval, sr),
         count |-> gs[at(k)].count]]

\* `Math.round(topCandidates[0]?.tempo || 0)`
TopTempo(cands) ==
  IF cands = <<>> THEN 0 ELSE RoundDiv(cands[1].tempo[1], cands[1].tempo[2])

\* detectBPM of imageUtils.ts: it has no await, so a call runs in one step.
\* getChannelData on a null argument throws and the catch returns 0.
DetectByPeaks ==
  /\ tempo = <<>>
  /\ IF trackBuffer = NullBuffer
     THEN /\ tempoThrew' = TRUE
          /\ tempo' = <<0>>
          /\ UNCHANGED <<partPeaks, groups, topCandidates>>
     ELSE /\ partPeaks' = GetPeaks(trackBuffer.volume)
          /\ groups' = GetIntervals(partPeaks')
          /\ topCandidates' = GetTempoCandidates(groups', trackBuffer.sampleRate)
          /\ tempo' = <<TopTempo(topCandidates')>>
          /\ UNCHANGED tempoThrew
  /\ UNCHANGED <<trackBuffer, bpmVars, dialogVars, dbVars, octaveVars, appVars>>

NextPeaks == DetectByPeaks

-----------------------------------------------------------------------------
(* App: the track list and the mixing queue.  Every update of the two
   states is a functional update or a constant, so the updates take effect
   in the order of the calls; `view`, `currentTrackId` and `selectedTags`
   are not part of the model. *)

\* Track ids run from 1 to MaxAppId.
MaxAppId == 3

AppIds == 1 .. MaxAppId

RECURSIVE IdsInOrder(_)
\* getAllTracks(): the ids of a set of stored tracks in ascending key order.
IdsInOrder(S) ==
  IF S = {} THEN <<>>
  ELSE LET first == CHOOSE i \in S : \A j \in S : i <= j
       IN <<first>> \o IdsInOrder(S \ {first})

\* The track lists loadData can set.
StoredLists == {IdsInOrder(S) : S \in SUBSET AppIds}

\* Largest number of tracks in a backup file.
MaxFileLen == 2

\* `data.tracks` of a backup file, which importData resolves with: any
\* tracks in any order, an id possibly more than once.
FileLists == UNION {[1 .. n -> AppIds] : n \in 0 .. MaxFileLen}

\* The ids of a list of tracks or of the queue.
IdsOf(list) == {list[n] : n \in DOMAIN list}

\* prev.filter(t => t.id !== id), prev.filter(tid => tid !== id)
Without(list, id) == SelectSeq(list, LAMBDA x : x # id)

\* The state after the load on mount: the stored tracks, an empty queue, no
\* delete under way.
AppInit(lists) ==
  /\ trackList \in lists
  /\ mixingQueue = <<>>
  /\ deleteCall = [id \in AppIds |-> "none"]

\* toggleQueue(id), from the card of a listed track or from an entry of
\* the queue.
ToggleQueue(id) ==
  /\ id \in IdsOf(trackList) \cup IdsOf(mixingQueue)
  /\ mixingQueue' = IF id \in IdsOf(mixingQueue)
                      THEN Without(mixingQueue, id)
                      ELSE Append(mixingQueue, id)
  /\ UNCHANGED <<trackList, deleteCall>>
  /\ UNCHANGED <<bpmVars, dialogVars, dbVars, octaveVars, peakVars>>

\* handleDeleteTrack(id) up to `await deleteTrackFromDB(id)`: it returns at
\* once when the user declines the confirm dialog.
HandleDeleteTrack(id, confirmed) ==
  /\ id \in IdsOf(trackList)
  /\ deleteCall[id] # "awaiting"
  /\ deleteCall' = IF confirmed THEN [deleteCall EXCEPT ![id] = "awaiting"]
                                ELSE deleteCall
  /\ UNCHANGED <<trackList, mixingQueue>>
  /\ UNCHANGED <<bpmVars, dialogVars, dbVars, octaveVars, peakVars>>

\* Mutant of DeleteFulfilled: the queue is not filtered.
DeleteFulfilledListOnly(id) ==
  /\ deleteCall[id] = "awaiting"
  /\ trackList' = Without(trackList, id)
  /\ deleteCall' = [deleteCall EXCEPT ![id] = "fulfilled"]
  /\ UNCHANGED mixingQueue
  /\ UNCHANGED <<bpmVars, dialogVars, dbVars, octaveVars, peakVars>>

\* deleteTrackFromDB(id) resolved: the rest of the try block.
DeleteFulfilled(id) ==
  /\ deleteCall[id] = "awaiting"
  /\ trackList' = Without(trackList, id)
  /\ mixingQueue' = Without(mixingQueue, id)
  /\ deleteCall' = [deleteCall EXCEPT ![id] = "fulfilled"]
  /\ UNCHANGED <<bpmVars, dialogVars, dbVars, octaveVars, peakVars>>

\* deleteTrackFromDB(id) rejected: the catch block only logs.
DeleteRejected(id) ==
  /\ deleteCall[id] = "awaiting"
  /\ deleteCall' = [deleteCall EXCEPT ![id] = "rejected"]
  /\ UNCHANGED <<trackList, mixingQueue>>
  /\ UNCHANGED <<bpmVars, dialogVars, dbVars, octaveVars, peakVars>>

\* onDataImported(newTracks), newTracks the tracks of the restored file
OnDataImported(newTracks) ==
  /\ trackList' = newTracks
  /\ mixingQueue' = <<>>
  /\ UNCHANGED deleteCall
  /\ UNCHANGED <<bpmVars, dialogVars, dbVars, octaveVars, peakVars>>

\* onDataCleared()
OnDataCleared ==
  /\ trackList' = <<>>
  /\ mixingQueue' = <<>>
  /\ UNCHANGED deleteCall
  /\ UNCHANGED <<bpmVars, dialogVars, dbVars, octaveVars, peakVars>>

NextApp ==
  \/ \E id \in AppIds : ToggleQueue(id)
  \/ \E id \in AppIds, confirmed \in BOOLEAN : HandleDeleteTrack(id, confirmed)
  \/ \E id \in AppIds : DeleteFulfilled(id)
  \/ \E id \in AppIds : DeleteRejected(id)
  \/ \E newTracks \in FileLists : OnDataImported(newTracks)
  \/ OnDataCleared

-----------------------------------------------------------------------------
(* Specifications *)

InitCalls(calls, inputs) ==
  /\ audioBuffer \in [calls -> inputs]
  /\ pc = [c \in calls |-> "start"]
  /\ threw = [c \in calls |-> "none"]
  /\ settled = [c \in calls |-> "pending"]
  /\ data = [c \in calls |-> NoData]
  /\ maxOffset = [c \in calls |-> 0]
  /\ volumeLevels = [c \in calls |-> NoLevels]
  /\ peaks = [c \in calls |-> <<>>]
  /\ intervals = [c \in calls |-> <<>>]
  /\ histogram = [c \in calls |-> <<>>]
  /\ bestBpm = [c \in calls |-> 0]
  /\ result = [c \in calls |-> 0]

\* The calls of detectBPM, with the dialog closed, the store empty and the
\* range-forcing loops not run on their own.
InitWith(calls, inputs) ==
  /\ InitCalls(calls, inputs)
  /\ DialogInit
  /\ StoreInit
  /\ OctaveInit({MinBpm})
  /\ PeakInit({NullBuffer})
  /\ AppInit({<<>>})

\* One call, with any of the arguments.
Init == InitWith({1}, Inputs)

Spec == Init /\ [][Next]_vars

\* One call, on a train of equally spaced impulses.
InitTrains == InitWith({1}, TrainInputs)

SpecTrains == InitTrains /\ [][Next]_vars

\* One call, on a buffer longer than the 30 s window.
InitLong == InitWith({1}, LongInputs)

SpecLong == InitLong /\ [][Next]_vars

\* Three calls, interleaved at their awaits: a pair to compare and one more
\* that runs before, between or after them.
InitPair == InitWith(1 .. 3, PairInputs)

SpecPair == InitPair /\ [][Next]_vars

\* The import dialog alone, no tempo detection running.
InitDialog == InitWith({1}, {NullBuffer})

SpecDialog == InitDialog /\ [][NextDialog]_vars

\* The track store alone: tracks are added, changed and deleted, backups are
\* written and restored.
InitBackup == InitWith({1}, {NullBuffer})

SpecBackup == InitBackup /\ [][NextBackup]_vars

\* The range-forcing loops alone, on every raw candidate up to MaxRaw.
InitOctave ==
  /\ InitCalls({1}, {NullBuffer})
  /\ DialogInit
  /\ StoreInit
  /\ OctaveInit(1 .. MaxRaw)
  /\ PeakInit({NullBuffer})
  /\ AppInit({<<>>})

SpecOctave == InitOctave /\ [][NextOctave]_vars

\* The peak-based detectBPM alone, on a null argument and on every track
\* of at most MaxParts parts.
InitPeaks ==
  /\ InitCalls({1}, {NullBuffer})
  /\ DialogInit
  /\ StoreInit
  /\ OctaveInit({MinBpm})
  /\ PeakInit({NullBuffer} \cup UNION {TrackBuffers(n) : n \in 1 .. MaxParts})
  /\ AppInit({<<>>})

SpecPeaks == InitPeaks /\ [][NextPeaks]_vars

\* The App state alone, from any stored library.
InitApp ==
  /\ InitCalls({1}, {NullBuffer})
  /\ DialogInit
  /\ StoreInit
  /\ OctaveInit({MinBpm})
  /\ PeakInit({NullBuffer})
  /\ AppInit(StoredLists)

SpecApp == InitApp /\ [][NextApp]_vars

-----------------------------------------------------------------------------
(* Properties of one call (specification Spec) *)

Done(c) == pc[c] = "done"
\* The call completed without raising an exception inside the try block.
Analysed(c) == pc[c] = "done" /\ threw[c] = "none"

IsSilent(buf) == ~buf.null /\ DOMAIN buf.samples = {}

\* C1: the value detectBPM returns is 0 or an integer in the closed range
\* 70 .. 185, for every argument.
C1_ResultRange ==
  \A c \in Calls : Done(c) => result[c] = 0 \/ result[c] \in 70 .. 185

\* A call returned a tempo after doubling a raw candidate below 70.
C1_Witness ==
  \E c \in Calls :
    Analysed(c) /\ bestBpm[c] \in 60 .. 69 /\ result[c] = 2 * bestBpm[c]

\* C2: a failure of any stage (null argument, context rejecting the sample
\* rate or the empty buffer, rendering failure) is caught: the call
\* completes with 0 and its promise is never rejected.
C2_FailureCaught ==
  \A c \in Calls :
    /\ settled[c] # "rejected"
    /\ Done(c) => settled[c] = "fulfilled"
    /\ Done(c) /\ threw[c] # "none" => result[c] = 0

\* Calls have completed after a TypeError, a NotSupportedError and a failed
\* rendering (one call each, in the states TLC joins: here any one of them).
C2_Witness ==
  \E c \in Calls :
    /\ Done(c)
    /\ threw[c] \in {"TypeError", "NotSupportedError", "RenderError"}
    /\ settled[c] = "fulfilled"

\* C3: for an all-zero buffer of any length and sample rate detectBPM returns
\* 0; no envelope index passes the strict threshold test, so there is no
\* onset and no interval.
C3_SilenceIsZero ==
  \A c \in Calls :
    Done(c) /\ IsSilent(audioBuffer[c]) =>
      result[c] = 0 /\ peaks[c] = <<>> /\ intervals[c] = <<>>

\* A silent buffer of at least one second was analysed to the end.
C3_Witness ==
  \E c \in Calls :
    /\ Analysed(c) /\ IsSilent(audioBuffer[c])
    /\ volumeLevels[c].length >= 100 /\ result[c] = 0

\* fewer than floor(sampleRate / 100) samples
ShorterThanWindow(buf) ==
  ~buf.null /\ buf.length < buf.sampleRate \div 100

\* C4: for a buffer shorter than one onset-detection window, with any sample
\* values, detectBPM returns 0 and raises no exception.
C4_ShortBufferIsZero ==
  \A c \in Calls :
    Done(c) /\ ShorterThanWindow(audioBuffer[c]) =>
      result[c] = 0 /\ settled[c] = "fulfilled"

\* A non-silent buffer of fewer samples than one window was analysed: its
\* envelope has one entry, above zero.
C4_Witness ==
  \E c \in Calls :
    /\ Analysed(c) /\ ShorterThanWindow(audioBuffer[c])
    /\ volumeLevels[c].length = 1 /\ Level(volumeLevels[c], 0) > 0
    /\ result[c] = 0

\* Some pair of onsets, the later one among the next four, is 0.33 .. 1.0 s
\* apart.
SomePairInRange(pk, sr) ==
  \E j \in 1 .. Len(pk) : \E k \in j + 1 .. Min(Len(pk), j + 4) :
    100 * (pk[k] - pk[j]) >= 33 * sr /\ pk[k] - pk[j] <= sr

\* C10: when no exception occurs detectBPM returns 0 if and only if no
\* interval survives collection (no onset pair within the lookahead is
\* 0.33 .. 1.0 s apart: fewer than two onsets is a case of it); then no
\* histogram is built and no candidate is corrected.
C10_ZeroIffNoInterval ==
  \A c \in Calls :
    Analysed(c) =>
      /\ result[c] = 0 <=> intervals[c] = <<>>
      /\ intervals[c] = <<>> <=>
           ~SomePairInRange(peaks[c], audioBuffer[c].sampleRate)
      /\ intervals[c] = <<>> => histogram[c] = <<>> /\ bestBpm[c] = 0

\* Two or more onsets were found and none of their pairs is in range: 0.
C10_Witness ==
  \E c \in Calls :
    Analysed(c) /\ Len(peaks[c]) >= 2 /\ intervals[c] = <<>> /\ result[c] = 0

-----------------------------------------------------------------------------
(* Properties of impulse trains (specification SpecTrains) *)

\* Number of impulses when the buffer holds two or more impulses of one
\* amplitude, equally spaced; 0 otherwise.
TrainLen(buf) ==
  IF buf.null \/ Cardinality(DOMAIN buf.samples) < 2 THEN 0
  ELSE LET at   == DOMAIN buf.samples
           n    == Cardinality(at)
           span == SetMax(at) - SetMin(at)
       IN IF /\ span % (n - 1) = 0
             /\ at = {SetMin(at) + k * (span \div (n - 1)) : k \in 0 .. n - 1}
             /\ \A p \in at : buf.samples[p] = buf.samples[SetMin(at)]
          THEN n ELSE 0

\* The spacing T of the impulses of a train, in samples.
TrainPeriod(buf) ==
  (SetMax(DOMAIN buf.samples) - SetMin(DOMAIN buf.samples)) \div (TrainLen(buf) - 1)

\* round(60 / T)
TrainBpm(buf) == RoundDiv(60 * buf.sampleRate, TrainPeriod(buf))

\* C5 as stated: impulses exactly T apart with 60/T in [70, 185] give
\* round(60/T) to within 1.
C5_AnyPeriod ==
  \A c \in Calls :
    LET buf == audioBuffer[c] IN
    /\ Analysed(c) /\ TrainLen(buf) >= 2
    /\ 70 * TrainPeriod(buf) <= 60 * buf.sampleRate
    /\ 60 * buf.sampleRate <= 185 * TrainPeriod(buf)
    => Abs(result[c] - TrainBpm(buf)) <= 1

\* The buffer is analysed whole (no longer than 30 s), T is a whole number
\* of envelope windows and 0.34 s <= T <= 0.85 s.
WholeWindows(buf) ==
  /\ buf.length <= WindowSize(buf.sampleRate)
  /\ TrainPeriod(buf) % GroupSize(buf.sampleRate) = 0
  /\ 100 * TrainPeriod(buf) >= 34 * buf.sampleRate
  /\ 100 * TrainPeriod(buf) <= 85 * buf.sampleRate

\* C5 (amended): in a buffer no longer than 30 s, two or more equal impulses
\* exactly T apart, T a whole number of envelope windows with
\* 0.34 s <= T <= 0.85 s, give exactly round(60/T).
C5_WholeWindowPeriod ==
  \A c \in Calls :
    LET buf == audioBuffer[c] IN
    Analysed(c) /\ TrainLen(buf) >= 2 /\ WholeWindows(buf)
    => result[c] = TrainBpm(buf)

\* A train of three or more impulses a whole number of windows apart was
\* analysed, and its tempo returned.
C5_Witness ==
  \E c \in Calls :
    LET buf == audioBuffer[c] IN
    /\ Analysed(c) /\ TrainLen(buf) >= 3 /\ WholeWindows(buf)
    /\ result[c] = TrainBpm(buf) /\ result[c] >= 70

\* A train of eight or more impulses at 44100 Hz with the given spacing, in
\* a buffer no longer than 30 s.
Harmonic(buf, period) ==
  /\ TrainLen(buf) >= 8
  /\ buf.length <= WindowSize(buf.sampleRate)
  /\ buf.sampleRate = HarmonicRate
  /\ TrainPeriod(buf) = period

\* C6 as stated: trains at period T, T/2 and 2T with 60/T = 140 all return
\* 140.
C6_AllReturn140 ==
  \A c \in Calls :
    LET buf == audioBuffer[c] IN
    /\ Analysed(c)
    /\ \/ Harmonic(buf, HarmonicPeriod)
       \/ Harmonic(buf, HarmonicPeriod \div 2)
       \/ Harmonic(buf, 2 * HarmonicPeriod)
    => result[c] = 140

\* C6 (amended): of trains of eight or more impulses with 60/T = 140 in a
\* buffer no longer than 30 s, those at period T and T/2 return 140 and the
\* one at period 2T returns 70.
C6_HalfTempoStays70 ==
  \A c \in Calls :
    LET buf == audioBuffer[c] IN
    Analysed(c) =>
      /\ Harmonic(buf, HarmonicPeriod) => result[c] = 140
      /\ Harmonic(buf, HarmonicPeriod \div 2) => result[c] = 140
      /\ Harmonic(buf, 2 * HarmonicPeriod) => result[c] = 70

\* The train at period 2T was analysed: raw candidate 70, returned as it is.
C6_Witness ==
  \E c \in Calls :
    /\ Analysed(c) /\ Harmonic(audioBuffer[c], 2 * HarmonicPeriod)
    /\ bestBpm[c] = 70 /\ result[c] = 70

-----------------------------------------------------------------------------
(* Properties of long buffers (specification SpecLong) *)

\* 40 s at 48000 Hz, silent but for equal clicks every 0.5 s from t = 5 s
\* to t = 35 s.
IsScenario(buf) ==
  /\ ~buf.null /\ buf.sampleRate = 48000 /\ buf.length = 40 * 48000
  /\ TrainLen(buf) >= 2 /\ TrainPeriod(buf) = 24000
  /\ SetMin(DOMAIN buf.samples) \in 5 * 48000 .. 5 * 48000 + 23999
  /\ SetMax(DOMAIN buf.samples) \in 35 * 48000 - 23999 .. 35 * 48000 + 23999

\* C7: for the 40 s, 48000 Hz buffer with clicks every 0.5 s from 5 s to
\* 35 s detectBPM returns 119, 120 or 121, whichever window is retained.
C7_ScenarioIs120 ==
  \A c \in Calls :
    Analysed(c) /\ IsScenario(audioBuffer[c]) => result[c] \in 119 .. 121

\* The scenario was analysed on a window that starts inside the buffer.
C7_Witness ==
  \E c \in Calls :
    /\ Analysed(c) /\ IsScenario(audioBuffer[c])
    /\ maxOffset[c] > 0 /\ data[c].length = 30 * 48000 /\ result[c] = 120

\* Longer than 30 s, not silent, every non-silent sample in the middle third.
InMiddleThird(buf) ==
  /\ ~buf.null /\ buf.length > 30 * buf.sampleRate
  /\ DOMAIN buf.samples # {}
  /\ \A p \in DOMAIN buf.samples : 3 * p >= buf.length /\ 3 * p < 2 * buf.length

\* The window [maxOffset, maxOffset + 30 s) meets the span from the first
\* to the last non-silent sample.
Overlaps(c) ==
  /\ maxOffset[c] <= SetMax(DOMAIN audioBuffer[c].samples)
  /\ SetMin(DOMAIN audioBuffer[c].samples)
       < maxOffset[c] + 30 * audioBuffer[c].sampleRate

SeenByScan(buf) ==
  \E k \in 0 .. (buf.length - 30 * buf.sampleRate - 1) \div (2 * buf.sampleRate) :
    CoarseEnergy(LowPassRender(buf), k * 2 * buf.sampleRate, 30 * buf.sampleRate) > 0

-----------------------------------------------------------------------------
(* Properties of calls in flight together (specification SpecPair) *)

Alone(buf) ==
  LET sr == buf.sampleRate
      d  == SelectWindow(LowPassRender(buf), sr)
      pk == FindPeaks(ComputeLevels(d, GroupSize(sr)), GroupSize(sr), sr)
      iv == CollectIntervals(pk, sr)
  IN Returned(iv, IF iv = <<>> THEN 0 ELSE BestCandidate(BuildHistogram(iv, sr)))

\* Every call that was analysed holds the result it would have alone.
AsIfAlone == \A c \in Calls : Analysed(c) => result[c] = Alone(audioBuffer[c])

-----------------------------------------------------------------------------
(* Claims checked under Spec: termination *)

\* The argument is a finite, non-empty buffer with a positive sample rate.
FiniteNonEmpty(buf) ==
  buf # NullBuffer /\ buf.length >= 1 /\ buf.sampleRate >= 1

\* C12: for every finite, non-empty buffer and every positive sample rate
\* the call terminates with a result: it is never inside a loop that does
\* not finish (a call that was invoked or is rendering always has its next
\* step to take), and once it has returned its promise is fulfilled with a
\* number.
C12_Terminates ==
  \A c \in Calls :
    FiniteNonEmpty(audioBuffer[c]) =>
      /\ pc[c] \in {"start", "rendering", "done"}
      /\ pc[c] = "done" => settled[c] = "fulfilled" /\ result[c] \in Nat

\* A call went through the envelope loop, the threshold loop, the interval
\* collection and the doubling loop, and returned.
C12_Witness ==
  \E c \in Calls :
    /\ FiniteNonEmpty(audioBuffer[c]) /\ Analysed(c)
    /\ volumeLevels[c].length >= 1 /\ Len(peaks[c]) >= 2
    /\ bestBpm[c] < MinBpm /\ result[c] > bestBpm[c]

-----------------------------------------------------------------------------
(* Claims checked under SpecLong: the size of the energy envelope *)

\* C13: whatever the length of the input buffer, a call on a buffer whose
\* sample rate is a multiple of 100 computes at most 3000 energy-envelope
\* windows (30 s of windows of sampleRate/100 samples).
C13_AtMost3000Windows ==
  \A c \in Calls :
    Analysed(c) /\ audioBuffer[c].sampleRate % 100 = 0 =>
      volumeLevels[c].length <= 100 * WindowSeconds

\* A buffer longer than 30 s at a multiple of 100 Hz was analysed, and its
\* envelope has exactly 3000 windows.
C13_Witness ==
  \E c \in Calls :
    /\ Analysed(c) /\ audioBuffer[c].sampleRate % 100 = 0
    /\ audioBuffer[c].length > 2 * WindowSize(audioBuffer[c].sampleRate)
    /\ volumeLevels[c].length = 100 * WindowSeconds

-----------------------------------------------------------------------------
(* Claims checked under SpecDialog: the import dialog *)

\* C14: after any sequence of processFiles calls and draft removals, also
\* with two processFiles calls made against the same rendered drafts, the
\* number of drafts never exceeds MAX_FILES.
C14_NeverMoreThanMax == Len(drafts) <= MAX_FILES

-----------------------------------------------------------------------------
(* Claims checked under SpecBackup: backup and restore *)

\* The tracks of the file given to importData.
BackupTracks == {jsonString.tracks[n] : n \in DOMAIN jsonString.tracks}

\* C15: when importData completes successfully the store contains exactly
\* the tracks of the backup and none of the previously stored ones; in
\* particular a restore of what exportData wrote leaves the exported tracks.
C15_RestoreReplaces ==
  [][importPhase # "fulfilled" /\ importPhase' = "fulfilled"
       => store' = BackupTracks']_vars

-----------------------------------------------------------------------------
(* Claims checked under SpecLong: the window selector *)

\* The offsets that are multiples of 2 s and at which a 30 s window fits
\* in the buffer.
FittingOffsets(d, sr) ==
  {k * ScanStep(sr) : k \in 0 .. (d.length - WindowSize(sr)) \div ScanStep(sr)}

\* C16: for a buffer longer than 30 s the retained offset is a multiple of
\* 2 s at which a 30 s window fits and has the maximum coarse energy
\* among all such offsets, and the output is the 30 s at that offset; a
\* buffer of 30 s or less is output unchanged.
C16_LoudestFittingWindow ==
  \A c \in Calls :
    Analysed(c) =>
      LET sr == audioBuffer[c].sampleRate
          d  == LowPassRender(audioBuffer[c])
      IN IF d.length > WindowSize(sr)
         THEN /\ maxOffset[c] \in FittingOffsets(d, sr)
              /\ \A o \in FittingOffsets(d, sr) :
                   CoarseEnergy(d, o, WindowSize(sr))
                     <= CoarseEnergy(d, maxOffset[c], WindowSize(sr))
              /\ data[c].length = WindowSize(sr)
              /\ data[c] = Slice(d, maxOffset[c], maxOffset[c] + WindowSize(sr))
         ELSE data[c] = d

-----------------------------------------------------------------------------
(* Claims checked under SpecLong: array reads *)

\* Every index of the ranges lies in [0, length).
Within(ranges, length) ==
  \A r \in ranges : 0 <= r.from /\ r.from <= r.to /\ r.to < length

-----------------------------------------------------------------------------
(* Claims checked under Spec: the energy envelope *)

\* C18 as stated: the envelope has exactly (selected buffer length) /
\* (window size) entries, window size = floor(sampleRate / 100), each the RMS
\* of one full window: no entry comes from a shorter, partial window.
C18_FullWindowsOnly ==
  \A c \in Calls :
    Analysed(c) =>
      volumeLevels[c].length * GroupSize(audioBuffer[c].sampleRate)
        = data[c].length

\* The sum of the squares of the samples of window w that exist: indices
\* w * groupSize up to (w + 1) * groupSize - 1, below data.length.
SquaresOf(d, w, groupSize) ==
  LET in == {p \in DOMAIN d.samples :
               p >= w * groupSize /\ p < (w + 1) * groupSize /\ p < d.length}
  IN SumFn([p \in in |-> d.samples[p] * d.samples[p]], in)

\* C18 (amended): the envelope has ceil(selected buffer length / window
\* size) entries; entry w is the square root of the sum of the squares of
\* the samples of window w divided by the window size, also for a last
\* window that is shorter than the window size.
C18_CeilingWithPartialLast ==
  \A c \in Calls :
    Analysed(c) =>
      LET gs == GroupSize(audioBuffer[c].sampleRate)
          v  == volumeLevels[c]
      IN /\ (v.length - 1) * gs < data[c].length
         /\ data[c].length <= v.length * gs
         /\ \A w \in 0 .. v.length - 1 :
              LET mean == (SquaresOf(data[c], w, gs) * RmsScale) \div gs
              IN /\ Level(v, w) >= 0
                 /\ Level(v, w) * Level(v, w) <= mean
                 /\ mean < (Level(v, w) + 1) * (Level(v, w) + 1)

\* The last entry of an envelope comes from a partial window that holds a
\* non-zero sample.
C18_Witness ==
  \E c \in Calls :
    LET gs == GroupSize(audioBuffer[c].sampleRate)
    IN /\ Analysed(c) /\ data[c].length % gs # 0
       /\ volumeLevels[c].length = data[c].length \div gs + 1
       /\ Level(volumeLevels[c], volumeLevels[c].length - 1) > 0

\* The windows i - 50 .. i + 50, clipped to the envelope, and the sum of
\* their energies.
SymmetricCount(v, i) == Min(v.length - 1, i + Range) - Max(0, i - Range) + 1

SymmetricSum(v, i) ==
  LET near == {j \in DOMAIN v.values : j >= i - Range /\ j <= i + Range}
  IN SumFn([j \in near |-> v.values[j]], near)

\* C19: for each envelope index i the local mean used for the threshold is
\* the mean over the indices i - 50 .. i + 50 clipped to the envelope, as
\* many windows after i as before i whenever both sides are available.
C19_SymmetricLocalMean ==
  \A c \in Calls :
    Analysed(c) =>
      \A i \in 0 .. volumeLevels[c].length - 1 :
        /\ LocalCount(volumeLevels[c], i) = SymmetricCount(volumeLevels[c], i)
        /\ LocalSum(volumeLevels[c], i) = SymmetricSum(volumeLevels[c], i)

\* envelope[i] > 1.3 * localMean(i), localMean the mean over i - 50 .. i + 50.
SymmetricAbove(v, i) ==
  Level(v, i) * SymmetricCount(v, i) * 10 > SymmetricSum(v, i) * 13

\* C20: an envelope index i is recorded as an onset if and only if
\* envelope[i] > 1.3 * localMean(i), envelope[i] >= envelope[i-1] (or i is
\* the first index), envelope[i] >= envelope[i+1] (or i is the last index),
\* and its timestamp is more than 0.2 s after the most recently recorded
\* onset (or none has been recorded yet).
C20_OnsetIff ==
  \A c \in Calls :
    Analysed(c) =>
      LET sr       == audioBuffer[c].sampleRate
          gs       == GroupSize(sr)
          v        == volumeLevels[c]
          recorded == {peaks[c][n] : n \in DOMAIN peaks[c]}
      IN \A i \in 0 .. v.length - 1 :
           i * gs \in recorded <=>
             /\ SymmetricAbove(v, i)
             /\ i = 0 \/ Level(v, i) >= Level(v, i - 1)
             /\ i = v.length - 1 \/ Level(v, i) >= Level(v, i + 1)
             /\ LET earlier == {t \in recorded : t < i * gs}
                IN earlier = {} \/ 5 * (i * gs - SetMax(earlier)) > sr

-----------------------------------------------------------------------------
(* Claims checked under Spec: the onset sequence *)

\* C21: the onset sequence is strictly ascending in time and any two
\* consecutive onsets are at least 0.2 s apart, for every envelope.
C21_AscendingAndSpaced ==
  \A c \in Calls :
    \A n \in 1 .. Len(peaks[c]) - 1 :
      /\ peaks[c][n] < peaks[c][n + 1]
      /\ 5 * (peaks[c][n + 1] - peaks[c][n]) >= audioBuffer[c].sampleRate

\* Onsets were recorded, and an index that passed the threshold and the
\* local-maximum test was left out because it came too soon after one.
C21_Witness ==
  \E c \in Calls :
    /\ Analysed(c) /\ Len(peaks[c]) >= 2
    /\ \E i \in DOMAIN volumeLevels[c].values :
         /\ AboveThreshold(volumeLevels[c], i) /\ IsLocalMax(volumeLevels[c], i)
         /\ \A n \in DOMAIN peaks[c] :
              peaks[c][n] # i * GroupSize(audioBuffer[c].sampleRate)

-----------------------------------------------------------------------------
(* Claims checked under SpecTrains: the interval collector *)

\* C22: for each onset at index k each of the next 5 onsets k+1 .. k+5 that
\* exists is examined, and a pair (k, k+5) whose spacing lies in
\* [0.33, 1.0] s contributes an interval.
C22_NextFiveExamined ==
  \A c \in Calls :
    Analysed(c) =>
      \A k \in 1 .. Len(peaks[c]) : \A i \in 1 .. 5 :
        k + i <= Len(peaks[c]) =>
          /\ <<k, k + i>> \in Examined(peaks[c])
          /\ InRange(peaks[c][k + i] - peaks[c][k], audioBuffer[c].sampleRate)
               => \E n \in DOMAIN intervals[c] :
                    intervals[c][n] = peaks[c][k + i] - peaks[c][k]

-----------------------------------------------------------------------------
(* Claims checked under Spec: the collected intervals *)

\* The examined pairs of onsets of call c whose spacing is x samples.
PairsSpaced(c, x) ==
  {pair \in Examined(peaks[c]) : peaks[c][pair[2]] - peaks[c][pair[1]] = x}

\* The spacings of the examined pairs of call c.
Spacings(c) ==
  {peaks[c][pair[2]] - peaks[c][pair[1]] : pair \in Examined(peaks[c])}

\* C23: every collected interval satisfies 0.33 <= interval <= 1.0 s; every
\* examined onset pair whose spacing lies in that range contributes exactly
\* one interval, and pairs outside the range contribute nothing.
C23_OneVotePerPairInRange ==
  \A c \in Calls :
    Analysed(c) =>
      LET sr == audioBuffer[c].sampleRate
          iv == intervals[c]
      IN /\ \A n \in DOMAIN iv : 100 * iv[n] >= 33 * sr /\ iv[n] <= sr
         /\ \A x \in Spacings(c) \cup {iv[n] : n \in DOMAIN iv} :
              Cardinality({n \in DOMAIN iv : iv[n] = x})
                = IF 100 * x >= 33 * sr /\ x <= sr
                  THEN Cardinality(PairsSpaced(c, x)) ELSE 0

\* A pair of onsets exactly 1.0 s apart gave an interval, and another
\* examined pair, outside the range, gave none.
C23_Witness ==
  \E c \in Calls :
    /\ Analysed(c)
    /\ \E n \in DOMAIN intervals[c] : intervals[c][n] = audioBuffer[c].sampleRate
    /\ \E x \in Spacings(c) :
         100 * x < 33 * audioBuffer[c].sampleRate \/ x > audioBuffer[c].sampleRate

-----------------------------------------------------------------------------
(* Claims checked under SpecTrains: the tempo histogram *)

\* c(x): the number of intervals of call c with round(60 / interval) = x,
\* that is x - 0.5 <= 60 / interval < x + 0.5.
VotesFor(c, x) ==
  Cardinality({n \in DOMAIN intervals[c] :
                 /\ (2 * x - 1) * intervals[c][n] <= 120 * audioBuffer[c].sampleRate
                 /\ 120 * audioBuffer[c].sampleRate < (2 * x + 1) * intervals[c][n]})

\* histogram[b] in quarters, 0 for a key that was never written.
WeightOf(c, b) == IF b \in DOMAIN histogram[c] THEN histogram[c][b] ELSE 0

\* C24: after all intervals are processed the weight of every bucket b is
\* c(b) + 0.25 * (c(b-1) + c(b+1)), and the total weight over all buckets
\* is 1.5 times the number of intervals (weights counted in quarters).
C24_TriangularWeights ==
  \A c \in Calls :
    Analysed(c) /\ intervals[c] # <<>> =>
      /\ \A b \in 0 .. 2 * MaxBpm :
           WeightOf(c, b)
             = 4 * VotesFor(c, b) + VotesFor(c, b - 1) + VotesFor(c, b + 1)
      /\ DOMAIN histogram[c] \subseteq 0 .. 2 * MaxBpm
      /\ SumFn(histogram[c], DOMAIN histogram[c]) = 6 * Len(intervals[c])

\* A bucket holds its own votes and neighbour weight from the bucket above,
\* and several intervals fell into one bucket.
C24_Witness ==
  \E c \in Calls :
    /\ Analysed(c)
    /\ \E b \in DOMAIN histogram[c] :
         /\ VotesFor(c, b) >= 2 /\ VotesFor(c, b + 1) >= 1
         /\ histogram[c][b] > 4 * VotesFor(c, b)

\* The intervals of call c in the opposite order of insertion.
Reversed(iv) == [n \in 1 .. Len(iv) |-> iv[Len(iv) + 1 - n]]

C27_SameBucket ==
  DOMAIN corrected = {70, 140, 280} =>
    \A a, b \in DOMAIN corrected : corrected[a] = corrected[b]

\* C27 (amended): a raw candidate and its double are mapped to the same
\* output unless both lie in [70, 185], where each is returned as it is; so
\* 140 and 280 are mapped to 140 and 70 to 70.
C27_FoldsUnlessBothInRange ==
  /\ \A a \in DOMAIN corrected :
       2 * a \in DOMAIN corrected =>
         (corrected[a] = corrected[2 * a] <=> ~(MinBpm <= a /\ 2 * a <= MaxBpm))
  /\ DOMAIN corrected = {70, 140, 280} =>
       corrected[70] = 70 /\ corrected[140] = 140 /\ corrected[280] = 140

\* The loops ran on 70, 140 and 280: the first two came back as they were
\* and 280 was folded onto 140.
C27_Witness ==
  /\ DOMAIN corrected = {70, 140, 280}
  /\ corrected[70] # corrected[140]
  /\ corrected[280] = corrected[140]

\* C28: in the peak-based detectBPM every tempo candidate is folded into
\* [60, 180], so the function returns 0 or an integer in [60, 180], and it
\* returns 0 when no interval group exists or a step throws.
C28_PeakVariantRange ==
  /\ \A k \in 1 .. Len(topCandidates) :
       /\ MinTempo * topCandidates[k].tempo[2] <= topCandidates[k].tempo[1]
       /\ topCandidates[k].tempo[1] <= MaxTempo * topCandidates[k].tempo[2]
  /\ tempo # <<>> =>
       /\ tempo[1] = 0 \/ tempo[1] \in MinTempo .. MaxTempo
       /\ groups = <<>> \/ tempoThrew => tempo[1] = 0

\* A call returned a tempo from several interval groups, one of them folded
\* by more than one halving (one part apart at 44100 Hz is 480 per minute).
C28_Witness ==
  /\ tempo # <<>> /\ tempo[1] \in MinTempo .. MaxTempo
  /\ Len(groups) >= 2
  /\ \E k \in 1 .. Len(topCandidates) :
       topCandidates[k].tempo[2] >= 4 * PartSize2

\* C29: in the energy-based pipeline the best raw candidate lies in
\* [60, 182] and received at least one direct vote; so the halving loop
\* never runs, doubling is applied at most once, and every non-zero result
\* lies in [70, 182].
C29_RawCandidateRange ==
  \A c \in Calls :
    Analysed(c) =>
      /\ intervals[c] # <<>> =>
           /\ bestBpm[c] \in 60 .. 182
           /\ VotesFor(c, bestBpm[c]) >= 1
           /\ DoubleUp(bestBpm[c]) <= MaxBpm
           /\ bestBpm[c] < MinBpm => 2 * bestBpm[c] >= MinBpm
           /\ result[c] = IF bestBpm[c] < MinBpm THEN 2 * bestBpm[c]
                                                ELSE bestBpm[c]
      /\ result[c] # 0 => result[c] \in MinBpm .. 182

\* A call whose best raw candidate is below 70 and was doubled once, with a
\* bucket next to it that holds neighbour weight only.
C29_Witness ==
  \E c \in Calls :
    /\ Analysed(c) /\ intervals[c] # <<>>
    /\ bestBpm[c] < MinBpm /\ result[c] = 2 * bestBpm[c]
    /\ \E b \in DOMAIN histogram[c] : VotesFor(c, b) = 0

\* No id occurs twice in the list.
NoDuplicate(list) ==
  \A m, n \in DOMAIN list : list[m] = list[n] => m = n

\* C30: the mixing queue never contains an id twice; when a confirmed
\* handleDeleteTrack(id) completes after a successful DB delete the id is
\* neither in the queue nor in the track list, and when the DB delete fails
\* the queue and the track list are left as they were.
C30_QueueAndDelete ==
  [][/\ NoDuplicate(mixingQueue')
     /\ \A id \in AppIds :
          /\ deleteCall[id] = "awaiting" /\ deleteCall'[id] = "fulfilled" =>
               /\ id \notin IdsOf(mixingQueue')
               /\ id \notin IdsOf(trackList')
          /\ deleteCall[id] = "awaiting" /\ deleteCall'[id] = "rejected" =>
               UNCHANGED <<trackList, mixingQueue>>]_vars

\* A confirmed delete completed: its id is in neither list, while two other
\* tracks are still queued.
C30_Witness ==
  \E id \in AppIds :
    /\ deleteCall[id] = "fulfilled"
    /\ id \notin IdsOf(mixingQueue) /\ id \notin IdsOf(trackList)
    /\ Len(mixingQueue) >= 2

====
